---- MODULE Spec2Model ----
(***************************************************************************)
(* A model of src/app.py: the account store, the per-account record        *)
(* collections and the Streamlit handlers that drive them, over a model of *)
(* the Qdrant operations the code calls (get_collections,                  *)
(* create_collection, upsert, scroll) and of bcrypt.                       *)
(***************************************************************************)
EXTENDS Integers, Sequences, FiniteSets, TLC

\* ------------------------------------------------------------------ bounds

\* Point ids uuid4 can return: 1..MaxIds (the code's ids are 128-bit).
MaxIds == 2
\* The values int(time.time()) takes: 0..MaxTime.
MaxTime == 0
\* The page size of every scroll request.  The code asks for 50 points a
\* page; the model asks for ScrollLimit, so that the collections the other
\* bounds allow span several pages.
ScrollLimit == 1
\* The longest text a calculate_cost call of SpecCost is given.
MaxText == 9
\* The most points the users collection of SpecFind holds.
MaxPoints == 4

\* ------------------------------------------------------------- input sets

Sessions == {"A", "B"}
\* "users" is also the name of the user-record collection.
Usernames == {"alice", "users"}
Emails == {"a@x.com", "b@y.com"}
\* A password as bcrypt reads it: head is the first 72 bytes of its UTF-8
\* encoding (never empty: the handlers refuse an empty password), tail the
\* bytes after them ("" for a password of at most 72 bytes).
Passwords ==
    {[head |-> "pw1", tail |-> ""], [head |-> "pw1", tail |-> "x"],
     [head |-> "pw2", tail |-> ""]}
Salts == {"s1", "s2"}
Ids == 1..MaxIds
Times == 0..MaxTime

\* Python's None where the other values are one-element sequences.
Nothing == << >>

VARIABLES
    collections,   \* Qdrant: collection name -> the set of its points
    session_state, \* Streamlit: session -> [logged_in, username]
    pending,       \* session -> the register_user call it is inside, or Nothing
    createCalls,   \* history: name -> number of create_collection requests
    registered,    \* history: username -> number of register_user calls that returned True
    appended,      \* history: the save_history calls made: the arguments and the id drawn
    last,          \* history: the handler that ran last and how it ended
    calls          \* history: what the handler that ran last called on the way
                   \* from "Generuj" to save_history

vars == <<collections, session_state, pending, createCalls, registered,
          appended, last, calls>>

\* ------------------------------------------------------------------ Qdrant

\* client.get_collections().collections, as the list of names
CollectionNames == DOMAIN collections

\* client.create_collection(name): a new empty collection.  Qdrant refuses
\* the name of an existing collection.
CreateCollection(colls, name) ==
    IF name \in DOMAIN colls THEN colls ELSE colls @@ (name :> {})

\* client.upsert(collection_name, points=[point]): the point replaces the
\* one with its id, if any.  Qdrant refuses (raises on) a collection that
\* does not exist, and nothing is stored.
Upsert(colls, name, point) ==
    IF name \notin DOMAIN colls THEN colls
    ELSE [colls EXCEPT ![name] = {p \in @ : p.id # point.id} \cup {point}]

\* The points of a set in scroll order (ascending id).
RECURSIVE ById(_)
ById(points) ==
    IF points = {} THEN << >>
    ELSE LET first == CHOOSE p \in points : \A q \in points : p.id <= q.id
         IN  <<first>> \o ById(points \ {first})

\* client.scroll(collection_name, limit, offset): the next `limit` points
\* from the cursor on, and the cursor of the page after them (Nothing at the
\* end).
Scroll(points, limit, offset) ==
    LET from == {p \in points : offset = Nothing \/ p.id >= offset[1]}
        sq   == ById(from)
    IN  [points      |-> SubSeq(sq, 1, IF Len(sq) < limit THEN Len(sq) ELSE limit),
         next_offset |-> IF Len(sq) > limit THEN <<sq[limit + 1].id>> ELSE Nothing]

\* The `while True` loop that breaks after its first request
ScrollLoopOnePage(points, all_points, offset) ==
    all_points \o Scroll(points, ScrollLimit, offset).points

\* The `while True` loop of find_user, find_user_record and get_history.
RECURSIVE ScrollLoop(_, _, _)
ScrollLoop(points, all_points, offset) ==
    LET page == Scroll(points, ScrollLimit, offset)
        acc  == all_points \o page.points
    IN  IF page.next_offset = Nothing THEN acc
        ELSE ScrollLoop(points, acc, page.next_offset)

\* The scroll requests the loop makes, in the order it makes them: what each
\* request asks for and what the store answers.
RECURSIVE ScrollRequests(_, _)
ScrollRequests(points, offset) ==
    LET page == Scroll(points, ScrollLimit, offset)
    IN  <<[offset |-> offset, limit |-> ScrollLimit, points |-> page.points,
           next_offset |-> page.next_offset]>>
        \o (IF page.next_offset = Nothing THEN << >>
            ELSE ScrollRequests(points, page.next_offset))

ScrollAll(colls, name) == ScrollLoop(colls[name], << >>, Nothing)

\* payload.get(key) == value, for a value that is not None
PayloadIs(payload, key, value) == key \in DOMAIN payload /\ payload[key] = value

\* uuid.uuid4(): an id no stored point has.
FreshIds == Ids \ UNION {{p.id : p \in collections[c]} : c \in DOMAIN collections}

\* ------------------------------------------------------------------ bcrypt

\* bcrypt's digest of a key under a salt (no two keys or salts collide).
BcryptDigest(salt, key) == <<salt, key>>

\* bcrypt.hashpw(password, salt): the salt and the digest of the first 72
\* bytes of the password; the bytes after them are not read.
BcryptHashpw(password, salt) ==
    [salt |-> salt, digest |-> BcryptDigest(salt, password.head)]

\* hash_password, given the salt gensalt() drew
hash_password(password, salt) == BcryptHashpw(password, salt)

\* check_password hashing under a salt of its own instead of the stored one
check_password_own_salt(password, hashed) ==
    BcryptHashpw(password, CHOOSE salt \in Salts : TRUE) = hashed

\* check_password: hashpw with the stored hash as salt takes the salt in it.
check_password(password, hashed) == BcryptHashpw(password, hashed.salt) = hashed

\* ------------------------------------------------------------ the accounts

\* The first point of the list whose payload has the username, or Nothing.
RECURSIVE FirstOf(_, _)
FirstOf(all_points, username) ==
    IF all_points = << >> THEN Nothing
    ELSE IF PayloadIs(Head(all_points).payload, "username", username)
         THEN <<Head(all_points)>>
         ELSE FirstOf(Tail(all_points), username)

\* find_user_record: the point, or Nothing
find_user_record(colls, username) == FirstOf(ScrollAll(colls, "users"), username)

\* find_user: the payload, or Nothing
find_user(colls, username) ==
    LET found == FirstOf(ScrollAll(colls, "users"), username)
    IN  IF found = Nothing THEN Nothing ELSE <<found[1].payload>>


\* The point of register_user with an id made from the username
UserPointKeyed(user_id, username, password, email, salt, created_at) ==
    [id      |-> IF username = "users" THEN MaxIds ELSE 1,
     payload |-> [username        |-> username,
                  hashed_password |-> hash_password(password, salt),
                  email           |-> email,
                  created_at      |-> created_at]]

\* The point register_user upserts; created_at is what int(time.time()) read.
UserPoint(user_id, username, password, email, salt, created_at) ==
    [id      |-> user_id,
     payload |-> [username        |-> username,
                  hashed_password |-> hash_password(password, salt),
                  email           |-> email,
                  created_at      |-> created_at]]

\* register_user without its find_user test
register_user_unchecked(colls, username, password, email, user_id, salt, created_at) ==
    [result      |-> TRUE,
     collections |-> Upsert(colls, "users",
                            UserPoint(user_id, username, password, email,
                                      salt, created_at))]

\* register_user: [result, collections]
register_user(colls, username, password, email, user_id, salt, created_at) ==
    IF find_user(colls, username) # Nothing
    THEN [result |-> FALSE, collections |-> colls]
    ELSE [result      |-> TRUE,
          collections |-> Upsert(colls, "users",
                                 UserPoint(user_id, username, password, email,
                                           salt, created_at))]

\* reset_password writing a payload built anew, without created_at
reset_password_rebuilt(colls, username, email, new_password, salt) ==
    LET user_record == find_user_record(colls, username)
    IN  IF user_record = Nothing
        THEN [result |-> FALSE, collections |-> colls]
        ELSE IF ~PayloadIs(user_record[1].payload, "email", email)
        THEN [result |-> FALSE, collections |-> colls]
        ELSE [result      |-> TRUE,
              collections |->
                 Upsert(colls, "users",
                        [id      |-> user_record[1].id,
                         payload |-> [username        |-> username,
                                      hashed_password |-> hash_password(new_password, salt),
                                      email           |-> email]])]

\* reset_password rewriting the hash before it compares the email
reset_password_write_first(colls, username, email, new_password, salt) ==
    LET user_record == find_user_record(colls, username)
    IN  IF user_record = Nothing
        THEN [result |-> FALSE, collections |-> colls]
        ELSE LET updated_payload == [user_record[1].payload EXCEPT
                                       !.hashed_password =
                                          hash_password(new_password, salt)]
             IN  [result      |-> PayloadIs(user_record[1].payload, "email", email),
                  collections |-> Upsert(colls, "users",
                                         [id      |-> user_record[1].id,
                                          payload |-> updated_payload])]

\* reset_password: [result, collections]
reset_password(colls, username, email, new_password, salt) ==
    LET user_record == find_user_record(colls, username)
    IN  IF user_record = Nothing
        THEN [result |-> FALSE, collections |-> colls]
        ELSE IF ~PayloadIs(user_record[1].payload, "email", email)
        THEN [result |-> FALSE, collections |-> colls]
        ELSE LET new_hashed      == hash_password(new_password, salt)
                 updated_payload == [user_record[1].payload EXCEPT
                                       !.hashed_password = new_hashed]
             IN  [result      |-> TRUE,
                  collections |-> Upsert(colls, "users",
                                         [id      |-> user_record[1].id,
                                          payload |-> updated_payload])]

\* login_user checking the password against every user record, whatever its
\* username
login_user_any_record(colls, username, password) ==
    \E p \in colls["users"] :
       /\ "hashed_password" \in DOMAIN p.payload
       /\ check_password(password, p.payload.hashed_password)

\* login_user
login_user(colls, username, password) ==
    LET user == find_user(colls, username)
    IN  IF user = Nothing THEN FALSE
        ELSE check_password(password, user[1].hashed_password)

\* create_users_collection: [collections, created]
create_users_collection(colls) ==
    IF "users" \notin DOMAIN colls
    THEN [collections |-> CreateCollection(colls, "users"), created |-> TRUE]
    ELSE [collections |-> colls, created |-> FALSE]

\* create_user_collection_if_not_exists without the membership test
create_user_collection_always(colls, username) ==
    [collections |-> CreateCollection(colls, username), created |-> TRUE]

\* create_user_collection_if_not_exists: [collections, created], created
\* saying whether it sent a create_collection request
create_user_collection_if_not_exists(colls, username) ==
    IF username \notin DOMAIN colls
    THEN [collections |-> CreateCollection(colls, username), created |-> TRUE]
    ELSE [collections |-> colls, created |-> FALSE]

\* ----------------------------------------------------------- the generator

Modes == {"Ulubione Universum", "Zabawnie"}
\* What the problem text area holds ("" when left empty).
Problems == {"", "X"}
\* What the style text input holds ("" when left empty).
Styles == {"", "Tolkien"}
\* A completion's message content: the text between its leading and
\* trailing white space.
Contents ==
    {[lead |-> "", core |-> "abcdefgh", trail |-> ""],
     [lead |-> " ", core |-> "Once.", trail |-> "\n"],
     [lead |-> " ", core |-> "", trail |-> "\n"]}
\* What chat.completions.create does: Nothing when it raises, else a content.
Responses == {Nothing} \cup {<<c>> : c \in Contents}

\* Python's truth value of a str-or-None
Truthy(text) == text # Nothing /\ text[1] # ""

\* generate_prompt; style is Nothing (None) or <<string>>.  The Polish
\* letters of the templates are written without their diacritics, which
\* keeps every length.
generate_prompt(problem, mode, style) ==
    LET prompt ==
          IF mode = "Ulubione Universum"
          THEN "Stworz mi z tego problemu szczegolowe opowiadanie dla osoby, ktora go nie rozumie, aby mu wytlumaczyc."
               \o (IF Truthy(style)
                   THEN " Ale w stylu opowiadan " \o style[1] \o "."
                   ELSE "")
          ELSE IF mode = "Zabawnie"
          THEN "Stworz mi z tego problemu dlugi, kilkupoziomowy zart, ale taki smieszny jak w try not laugh, "
               \o "dla osoby, ktora go nie rozumie, aby mu szczegolowo i po ludzku wytlumaczyc jak, bez zadnych innych wstawek i wytlumaczen."
          ELSE ""
    IN  prompt \o "\nProblem: " \o problem

\* str.strip()
Strip(content) == content.core

\* get_gpt4_response returning the text of the error where it returns None
get_gpt4_response_error_text(response) ==
    IF response = Nothing THEN <<"Blad przy generowaniu odpowiedzi">>
    ELSE <<Strip(response[1])>>

\* get_gpt4_response: the stripped content, or Nothing (None) when the call
\* raised
get_gpt4_response(response) ==
    IF response = Nothing THEN Nothing ELSE <<Strip(response[1])>>

\* approximate_token_count without its max(1, ...)
approximate_token_count_floor(text) == Len(text) \div 4

\* approximate_token_count
approximate_token_count(text) ==
    LET n == Len(text) \div 4 IN IF n > 1 THEN n ELSE 1

\* The default of calculate_cost's exchange_rate.
DefaultExchangeRate == 4

\* calculate_cost, in units of 1e-7 USD and 1e-7 PLN: 2.5 USD and 10.0 USD
\* a million tokens are 25 and 100 units a token.
calculate_cost(prompt_text, generated_text, exchange_rate) ==
    LET prompt_tokens   == approximate_token_count(prompt_text)
        output_tokens   == approximate_token_count(generated_text)
        cost_prompt_usd == prompt_tokens * 25
        cost_output_usd == output_tokens * 100
        total_cost_usd  == cost_prompt_usd + cost_output_usd
        total_cost_pln  == total_cost_usd * exchange_rate
    IN  <<total_cost_usd, total_cost_pln>>

\* The point save_history upserts.
HistoryPoint(record_id, record_type, prompt_text, generated_text, cost_usd, cost_pln, timestamp) ==
    [id      |-> record_id,
     payload |-> [type           |-> record_type,
                  prompt         |-> prompt_text,
                  generated_text |-> generated_text,
                  cost_usd       |-> cost_usd,
                  cost_pln       |-> cost_pln,
                  timestamp      |-> timestamp]]

\* save_history: the collections after its upsert
save_history(colls, account_name, record_type, prompt_text, generated_text, cost_usd, cost_pln, record_id, timestamp) ==
    Upsert(colls, account_name,
           HistoryPoint(record_id, record_type, prompt_text, generated_text,
                        cost_usd, cost_pln, timestamp))

\* get_history: the list of all points of the account's collection
get_history(colls, account_name) == ScrollAll(colls, account_name)

\* ------------------------------------------------------------ the handlers

Did(op, result) == [op |-> op, result |-> result]

\* What a handler called between "Generuj" and save_history: the number of
\* chat.completions.create, calculate_cost and save_history calls, whether
\* the completion raised, the st.error shown ("" for none), and the
\* st.session_state["username"] the handler ran under.
Called(account, completion, raised, error, estimate, save) ==
    [account |-> account, completion |-> completion, raised |-> raised,
     error |-> error, estimate |-> estimate, save |-> save]

\* A handler that is not "Generuj" makes none of these calls.
NoCalls == Called("", 0, FALSE, "", 0, 0)

\* The `except` of get_gpt4_response: the st.error it shows, "" for none.
ReportedError(response) == IF response = Nothing THEN "completion" ELSE ""

\* The test of the tab "Generuj" asking whether the key is there, not what
\* it holds
generate_tab_open_key_present(state) == "logged_in" \in DOMAIN state

\* `if not st.session_state["logged_in"]` of the tab "Generuj": the tab
\* shows its inputs and its button to a logged-in session only.
generate_tab_open(state) == state.logged_in

\* The state after the first run of main(): create_users_collection has
\* created "users", no session is logged in.
Init ==
    /\ collections = ("users" :> {})
    /\ session_state = [s \in Sessions |-> [logged_in |-> FALSE, username |-> ""]]
    /\ pending = [s \in Sessions |-> Nothing]
    /\ createCalls = [n \in Usernames \cup {"users"} |-> IF n = "users" THEN 1 ELSE 0]
    /\ registered = [u \in Usernames |-> 0]
    /\ appended = {}
    /\ last = Did("start", FALSE)
    /\ calls = NoCalls

\* What a call draws from S (a fresh uuid, a salt, the time) when it reaches
\* the line that draws, and a fixed value the call never reads when not.
Drawn(reached, S, unread) == IF reached THEN S ELSE {unread}

\* "Dalej" with auth_mode "Zarejestruj" and every field filled in, with what
\* register_user draws.
RegisterCall(s, username, password, email, user_id, salt, created_at) ==
    LET r == register_user(collections, username, password, email,
                           user_id, salt, created_at)
    IN  /\ pending[s] = Nothing
        /\ collections' = r.collections
        /\ registered' = IF r.result
                         THEN [registered EXCEPT ![username] = @ + 1]
                         ELSE registered
        /\ last' = Did("register", r.result)
        /\ calls' = NoCalls
        /\ UNCHANGED <<session_state, pending, createCalls, appended>>

Register(s) ==
    \E username \in Usernames, password \in Passwords, email \in Emails :
       LET is_new == find_user(collections, username) = Nothing IN
       \E user_id \in Drawn(is_new, FreshIds, 0), salt \in Drawn(is_new, Salts, ""),
          created_at \in Drawn(is_new, Times, 0) :
          RegisterCall(s, username, password, email, user_id, salt, created_at)

\* "Dalej" with auth_mode "Zaloguj" and every field filled in.
LoginCall(s, username, password) ==
    LET ok == login_user(collections, username, password)
        c  == create_user_collection_if_not_exists(collections, username)
    IN  /\ pending[s] = Nothing
        /\ session_state' =
              IF ok
              THEN [session_state EXCEPT
                      ![s] = [logged_in |-> TRUE, username |-> username]]
              ELSE session_state
        /\ collections' = IF ok THEN c.collections ELSE collections
        /\ createCalls' = IF ok /\ c.created
                          THEN [createCalls EXCEPT ![username] = @ + 1]
                          ELSE createCalls
        /\ last' = Did("login", ok)
        /\ calls' = NoCalls
        /\ UNCHANGED <<pending, registered, appended>>

Login(s) ==
    \E username \in Usernames, password \in Passwords :
       LoginCall(s, username, password)

\* "Resetuj haslo" with every field filled in and the two passwords equal,
\* with the salt reset_password draws.
ResetCall(s, reset_username, reset_email, new_password, salt) ==
    LET r == reset_password(collections, reset_username, reset_email,
                            new_password, salt)
    IN  /\ pending[s] = Nothing
        /\ collections' = r.collections
        /\ last' = Did("reset", r.result)
        /\ calls' = NoCalls
        /\ UNCHANGED <<session_state, pending, createCalls, registered, appended>>

\* "Resetuj haslo" with every field filled in and two different passwords.
ResetMismatch(s) ==
    /\ pending[s] = Nothing
    /\ last' = Did("reset_mismatch", FALSE)
    /\ calls' = NoCalls
    /\ UNCHANGED <<collections, session_state, pending, createCalls, registered,
                   appended>>

Reset(s) ==
    \E new_password \in Passwords, same \in BOOLEAN :
    \E confirm_password \in IF same THEN {new_password}
                            ELSE {CHOOSE p \in Passwords : p # new_password} :
       IF new_password # confirm_password
       THEN ResetMismatch(s)
       ELSE \E reset_username \in Usernames, reset_email \in Emails :
            LET user_record == find_user_record(collections, reset_username)
                matches     == /\ user_record # Nothing
                               /\ PayloadIs(user_record[1].payload, "email", reset_email)
            IN  \E salt \in Drawn(matches, Salts, "") :
                ResetCall(s, reset_username, reset_email, new_password, salt)

\* "Generuj" in a logged-in session.
Generate(s) ==
    /\ pending[s] = Nothing
    /\ generate_tab_open(session_state[s])
    /\ \E problem_input \in Problems :
        IF problem_input = ""
        THEN /\ last' = Did("generate_empty", FALSE)
             /\ calls' = Called(session_state[s].username, 0, FALSE, "problem", 0, 0)
             /\ UNCHANGED <<collections, appended>>
        ELSE \E mode \in Modes, response \in Responses :
             \E style_input \in IF mode = "Ulubione Universum"
                                THEN {<<style>> : style \in Styles} ELSE {Nothing} :
             LET prompt         == generate_prompt(problem_input, mode, style_input)
                 generated_text == get_gpt4_response(response)
             IN  IF ~Truthy(generated_text)
                 THEN /\ last' = Did("generate", FALSE)
                      /\ calls' = Called(session_state[s].username, 1,
                                         response = Nothing,
                                         ReportedError(response), 0, 0)
                      /\ UNCHANGED <<collections, appended>>
                 ELSE \E record_id \in FreshIds, timestamp \in Times :
                      LET cost         == calculate_cost(prompt, generated_text[1], DefaultExchangeRate)
                          account_name == session_state[s].username
                      IN  /\ collections' =
                                save_history(collections, account_name, mode, prompt,
                                             generated_text[1], cost[1], cost[2],
                                             record_id, timestamp)
                          /\ appended' = appended \cup
                                {[account        |-> account_name,
                                  id             |-> record_id,
                                  type           |-> mode,
                                  prompt         |-> prompt,
                                  generated_text |-> generated_text[1],
                                  cost_usd       |-> cost[1],
                                  cost_pln       |-> cost[2]]}
                          /\ last' = Did("generate", TRUE)
                          /\ calls' = Called(account_name, 1, response = Nothing,
                                             ReportedError(response), 1, 1)
    /\ UNCHANGED <<session_state, pending, createCalls, registered>>

\* The tab "Zapisane Opowiesci i Zarty" of a logged-in session, which every
\* run of main() renders: it changes nothing.
History(s) ==
    /\ pending[s] = Nothing
    /\ session_state[s].logged_in
    /\ last' = Did("history", session_state[s].username \in CollectionNames)
    /\ calls' = NoCalls
    /\ UNCHANGED <<collections, session_state, pending, createCalls, registered,
                   appended>>

Next ==
    \/ \E s \in Sessions : Register(s)
    \/ \E s \in Sessions : Login(s)
    \/ \E s \in Sessions : Reset(s)
    \/ \E s \in Sessions : Generate(s)
    \/ \E s \in Sessions : History(s)

\* Handlers run one after another.
Spec == Init /\ [][Next]_vars

\* ------------------------------------- register_user in concurrent sessions

\* register_user up to its `if find_user(username)`: the call returns False,
\* or goes on to build and upsert the record.
RegisterCheck(s) ==
    /\ pending[s] = Nothing
    /\ \E username \in Usernames, password \in Passwords, email \in Emails :
          IF find_user(collections, username) # Nothing
          THEN /\ last' = Did("register", FALSE)
               /\ UNCHANGED pending
          ELSE /\ pending' = [pending EXCEPT ![s] =
                                <<[username |-> username, password |-> password,
                                   email |-> email]>>]
               /\ last' = Did("register_check", TRUE)
    /\ calls' = NoCalls
    /\ UNCHANGED <<collections, session_state, createCalls, registered, appended>>

\* register_user from `user_id = str(uuid.uuid4())` to its `return True`.
RegisterInsert(s) ==
    /\ pending[s] # Nothing
    /\ \E user_id \in FreshIds, salt \in Salts, created_at \in Times :
          collections' =
             Upsert(collections, "users",
                    UserPoint(user_id, pending[s][1].username, pending[s][1].password,
                              pending[s][1].email, salt, created_at))
    /\ registered' = [registered EXCEPT ![pending[s][1].username] = @ + 1]
    /\ pending' = [pending EXCEPT ![s] = Nothing]
    /\ last' = Did("register", TRUE)
    /\ calls' = NoCalls
    /\ UNCHANGED <<session_state, createCalls, appended>>

NextRace ==
    \/ \E s \in Sessions : RegisterCheck(s)
    \/ \E s \in Sessions : RegisterInsert(s)
    \/ \E s \in Sessions : Login(s)

\* The sessions' register_user calls interleave at their Qdrant requests.
SpecRace == Init /\ [][NextRace]_vars

\* ----------------------------------------------------- find_user by itself

\* What a point id of the users collection holds: nothing, a user record of
\* a username, or a generation record of the account "users".
Kinds == {"", "generation"} \cup Usernames

\* A stored point of the kind.
Stored(id, kind) ==
    IF kind = "generation"
    THEN HistoryPoint(id, "Zabawnie", generate_prompt("X", "Zabawnie", Nothing),
                      "abcdefgh", 0, 0, 0)
    ELSE UserPoint(id, kind, [head |-> "pw1", tail |-> ""], "a@x.com", "s1", 0)

\* The users collection holds any records under the ids 1..MaxPoints, the
\* records of one username on any of its pages.
InitFind ==
    /\ \E kind \in [1..MaxPoints -> Kinds] :
          collections =
             ("users" :> {Stored(id, kind[id]) : id \in {i \in 1..MaxPoints : kind[i] # ""}})
    /\ session_state = [s \in Sessions |-> [logged_in |-> FALSE, username |-> ""]]
    /\ pending = [s \in Sessions |-> Nothing]
    /\ createCalls = [n \in Usernames \cup {"users"} |-> IF n = "users" THEN 1 ELSE 0]
    /\ registered = [u \in Usernames |-> 0]
    /\ appended = {}
    /\ last = Did("start", FALSE)
    /\ calls = NoCalls

\* A call find_user(username) and a call find_user_record(username).
FindUser ==
    \E username \in Usernames :
       /\ last' = Did("find_user",
                      [username |-> username,
                       payload  |-> find_user(collections, username),
                       record   |-> find_user_record(collections, username),
                       requests |-> ScrollRequests(collections["users"], Nothing)])
       /\ UNCHANGED <<collections, session_state, pending, createCalls,
                      registered, appended, calls>>

NextFind == FindUser

\* find_user called on any users collection.
SpecFind == InitFind /\ [][NextFind]_vars

\* ------------------------------------------------ calculate_cost by itself

\* The text of n characters: "", "a", "ab", ... "abcdefgh", "abcdefgha", ...
Alphabet == <<"a", "b", "c", "d", "e", "f", "g", "h">>
RECURSIVE Text(_)
Text(n) == IF n = 0 THEN "" ELSE Text(n - 1) \o Alphabet[((n - 1) % 8) + 1]
Texts == {Text(n) : n \in 0..MaxText}
\* The exchange_rate argument: left out (Nothing) or given.
Rates == {Nothing, <<1>>, <<5>>}

\* A call calculate_cost(prompt_text, generated_text[, exchange_rate]).
Estimate ==
    \E prompt_text \in Texts, generated_text \in Texts, rate \in Rates :
       LET exchange_rate == IF rate = Nothing THEN DefaultExchangeRate ELSE rate[1]
       IN  /\ last' = Did("calculate_cost",
                          [prompt_text    |-> prompt_text,
                           generated_text |-> generated_text,
                           exchange_rate  |-> rate,
                           cost |-> calculate_cost(prompt_text, generated_text,
                                                   exchange_rate)])
           /\ UNCHANGED <<collections, session_state, pending, createCalls,
                          registered, appended, calls>>

NextCost == Estimate

\* calculate_cost called on any two texts, with and without a rate.
SpecCost == Init /\ [][NextCost]_vars

\* ---------------------------------------------------- what the claims read

\* The stored user records of a username.
UserPoints(colls, username) ==
    {p \in colls["users"] :
        "username" \in DOMAIN p.payload /\ p.payload.username = username}

\* The password's digest under the hash's salt is the hash's digest.
Verifies(password, hashed) ==
    BcryptDigest(hashed.salt, password.head) = hashed.digest

\* The username's record find_user and find_user_record reach first.
Found(colls, username) ==
    CHOOSE p \in UserPoints(colls, username) :
        \A q \in UserPoints(colls, username) : p.id <= q.id

\* The username has a record, and the record found has the email.
Matches(colls, username, email) ==
    /\ UserPoints(colls, username) # {}
    /\ Found(colls, username).payload.email = email

StoredIds(colls) == {p.id : p \in UNION {colls[c] : c \in DOMAIN colls}}

\* ---------------------------------------------------------------- C1

\* C1 (as claimed): a register call for a stored username returns False and
\* changes nothing in the store; for a username that is not stored it
\* returns True and adds exactly one user record, with a fresh id, after
\* which the registered password logs in and every other password (such as
\* that of a later, rejected registration) does not.
C1_Claim ==
    [][last'.op = "register" =>
        \A s \in Sessions, u \in Usernames, pw \in Passwords, e \in Emails,
           id \in Ids \cup {0}, salt \in Salts \cup {""}, t \in Times :
           RegisterCall(s, u, pw, e, id, salt, t) =>
              IF UserPoints(collections, u) # {}
              THEN /\ last'.result = FALSE
                   /\ collections' = collections
              ELSE /\ last'.result = TRUE
                   /\ \E p \in collections'["users"] :
                         /\ p.id \notin StoredIds(collections)
                         /\ p.payload.username = u
                         /\ p \notin collections["users"]
                         /\ collections' =
                               [collections EXCEPT !["users"] = @ \cup {p}]
                   /\ login_user(collections', u, pw)
                   /\ \A pw2 \in Passwords \ {pw} : ~login_user(collections', u, pw2)
    ]_vars

\* C1: a registration has been rejected, and two different passwords log
\* in to one account.
C1_Witness ==
    /\ last = Did("register", FALSE)
    /\ \E u \in Usernames : \E pw1, pw2 \in Passwords :
          /\ pw1 # pw2
          /\ login_user(collections, u, pw1)
          /\ login_user(collections, u, pw2)

\* ---------------------------------------------------------------- C2

\* C2: in every state and for every username and password, login_user
\* returns True exactly when the username has a stored record and the
\* password verifies against the hash of the record found; it returns False
\* for a username without a record; and the login handler's store update
\* leaves the user records as they are.
C2_Thm ==
    \A u \in Usernames, pw \in Passwords :
       /\ login_user(collections, u, pw) =
             (/\ UserPoints(collections, u) # {}
              /\ Verifies(pw, Found(collections, u).payload.hashed_password))
       /\ UserPoints(collections, u) = {} => ~login_user(collections, u, pw)
       /\ create_user_collection_if_not_exists(collections, u).collections["users"]
             = collections["users"]

\* C2: a login has succeeded while another password of that account is
\* refused and the other username is refused whatever the password.
C2_Witness ==
    /\ last = Did("login", TRUE)
    /\ \E s \in Sessions :
          /\ session_state[s].logged_in
          /\ \E pw \in Passwords :
                ~login_user(collections, session_state[s].username, pw)
    /\ \E u \in Usernames : UserPoints(collections, u) = {}

\* ---------------------------------------------------------------- C3

\* C3: in every state, reset_password returns True exactly when the
\* username has a record whose email is the one given; then the store
\* differs only in that record's hashed_password: same id, username, email
\* and created_at, no record more or less, the other records and
\* collections as they were.
C3_Thm ==
    \A u \in Usernames, e \in Emails, pw \in Passwords, salt \in Salts :
       LET r == reset_password(collections, u, e, pw, salt)
       IN  /\ r.result = Matches(collections, u, e)
           /\ r.result =>
                 LET p == Found(collections, u) IN
                 \E q \in r.collections["users"] :
                    /\ q.id = p.id
                    /\ DOMAIN q.payload = DOMAIN p.payload
                    /\ q.payload.username = p.payload.username
                    /\ q.payload.email = p.payload.email
                    /\ q.payload.created_at = p.payload.created_at
                    /\ q.payload.hashed_password = hash_password(pw, salt)
                    /\ r.collections =
                          [collections EXCEPT !["users"] = (@ \ {p}) \cup {q}]

\* C3: a reset has succeeded with the records of two users stored.
C3_Witness ==
    /\ last = Did("reset", TRUE)
    /\ \A u \in Usernames : UserPoints(collections, u) # {}

\* ---------------------------------------------------------------- C4

\* C4 (as claimed): after a reset_password call that returns True, the new
\* password logs in and every other password does not; and no later step
\* but a reset that returns True changes which passwords log in to a
\* registered username.
C4_Claim ==
    [][/\ last' = Did("reset", TRUE) =>
            \A s \in Sessions, u \in Usernames, e \in Emails,
               new_pw \in Passwords, salt \in Salts :
               ResetCall(s, u, e, new_pw, salt) =>
                  /\ login_user(collections', u, new_pw)
                  /\ \A old_pw \in Passwords \ {new_pw} :
                        ~login_user(collections', u, old_pw)
       /\ last' # Did("reset", TRUE) =>
            \A u \in Usernames, pw \in Passwords :
               UserPoints(collections, u) # {} =>
                  login_user(collections', u, pw) = login_user(collections, u, pw)
    ]_vars

\* C4: a reset has succeeded, and two different passwords log in to the
\* account.
C4_Witness ==
    /\ last = Did("reset", TRUE)
    /\ \E u \in Usernames : \E pw1, pw2 \in Passwords :
          /\ pw1 # pw2
          /\ login_user(collections, u, pw1)
          /\ login_user(collections, u, pw2)

\* ---------------------------------------------------------------- C5

\* C5: in every state, reset_password for a username without a record, or
\* with an email that is not the stored one, returns False and leaves the
\* whole store as it is, so that every password that logged in still does.
C5_Thm ==
    \A u \in Usernames, e \in Emails, pw \in Passwords, salt \in Salts :
       LET r == reset_password(collections, u, e, pw, salt)
       IN  ~Matches(collections, u, e) =>
              /\ r.result = FALSE
              /\ r.collections = collections
              /\ \A old_pw \in Passwords :
                    login_user(collections, u, old_pw) =>
                       login_user(r.collections, u, old_pw)

\* C5: a reset has failed though both usernames are registered (so the
\* email was wrong), and both accounts still have a password that logs in.
C5_Witness ==
    /\ last = Did("reset", FALSE)
    /\ \A u \in Usernames :
          /\ UserPoints(collections, u) # {}
          /\ \E pw \in Passwords : login_user(collections, u, pw)

\* ---------------------------------------------------------------- C6

\* C6: while register_user calls interleave, every call that returns True
\* has added a record of its own: a username has as many stored records as
\* register_user calls for it have returned True (so that two calls that
\* both pass the check leave two records of one username).
C6_Thm ==
    \A u \in Usernames :
       Cardinality(UserPoints(collections, u)) = registered[u]

\* C6: two register_user calls for one username have both returned True,
\* and the users collection holds two records with that username.
C6_Witness ==
    /\ last = Did("register", TRUE)
    /\ \E u \in Usernames :
          /\ registered[u] = 2
          /\ \E p, q \in UserPoints(collections, u) : p.id # q.id

\* ---------------------------------------------------------------- C7

\* C7: in every state there has been exactly one create_collection request
\* for each collection that exists and none for one that does not; a
\* create_user_collection_if_not_exists call for an existing collection
\* sends no request and leaves the store as it is; and a second call right
\* after a first one does so too.
C7_Thm ==
    \A u \in Usernames :
       LET first  == create_user_collection_if_not_exists(collections, u)
           second == create_user_collection_if_not_exists(first.collections, u)
       IN  /\ createCalls[u] = IF u \in DOMAIN collections THEN 1 ELSE 0
           /\ u \in DOMAIN collections =>
                 first = [collections |-> collections, created |-> FALSE]
           /\ u \in DOMAIN first.collections
           /\ second = [collections |-> first.collections, created |-> FALSE]

\* C7: two sessions have logged in with one username whose collection the
\* first login created, so the call has run for an existing collection.
C7_Witness ==
    /\ last = Did("login", TRUE)
    /\ \E u \in Usernames \ {"users"} :
          /\ \A s \in Sessions : session_state[s] = [logged_in |-> TRUE, username |-> u]
          /\ createCalls[u] = 1

\* ---------------------------------------------------------------- C8

\* The points save_history wrote: those with a generated_text.
IsGeneration(p) == "generated_text" \in DOMAIN p.payload
IsUser(p) == "username" \in DOMAIN p.payload

\* C8: in every state each stored generation record lies in a collection
\* whose name is the username of a stored user record.
C8_Thm ==
    \A c \in DOMAIN collections :
       \A p \in collections[c] :
          IsGeneration(p) => UserPoints(collections, c) # {}

\* C8: a generation has been saved, and generation records are stored.
C8_Witness ==
    /\ last = Did("generate", TRUE)
    /\ \E c \in DOMAIN collections : \E p \in collections[c] : IsGeneration(p)

\* ---------------------------------------------------------------- C9

\* C9 (as claimed): in every state the users collection holds user records
\* only, and every other collection holds generation records only, those
\* appended for the account of its name.
C9_Claim ==
    /\ \A p \in collections["users"] : IsUser(p) /\ ~IsGeneration(p)
    /\ \A c \in DOMAIN collections \ {"users"} :
          \A p \in collections[c] :
             /\ IsGeneration(p) /\ ~IsUser(p)
             /\ \E x \in appended : x.account = c /\ x.id = p.id

\* C9: the account "users" is registered and logged in, and a generation
\* has been saved.
C9_Witness ==
    /\ last = Did("generate", TRUE)
    /\ \E s \in Sessions : session_state[s] = [logged_in |-> TRUE, username |-> "users"]
    /\ \E p \in collections["users"] : IsGeneration(p)

\* --------------------------------------------------------------- C10

\* What save_history was given for the account, by id.
AppendedTo(account) == {x \in appended : x.account = account}

\* The accounts whose history a session can ask for: those it is logged in to.
LoggedInAccounts ==
    {session_state[s].username : s \in {t \in Sessions : session_state[t].logged_in}}

\* C10 (as claimed): in every state and for every account a session is
\* logged in to, get_history returns one record for each save_history call
\* made for the account and no other, each with the type, prompt,
\* generated_text, cost_usd and cost_pln the call was given.
C10_Claim ==
    \A account \in LoggedInAccounts :
       LET history == get_history(collections, account)
       IN  /\ Len(history) = Cardinality(AppendedTo(account))
           /\ \A x \in AppendedTo(account) :
                 \E i \in 1..Len(history) :
                    /\ history[i].id = x.id
                    /\ history[i].payload.type = x.type
                    /\ history[i].payload.prompt = x.prompt
                    /\ history[i].payload.generated_text = x.generated_text
                    /\ history[i].payload.cost_usd = x.cost_usd
                    /\ history[i].payload.cost_pln = x.cost_pln

\* C10: a generation has been saved for the account "users", whose
\* collection then holds more points than a page.
C10_Witness ==
    /\ last = Did("generate", TRUE)
    /\ AppendedTo("users") # {}
    /\ Len(get_history(collections, "users")) > ScrollLimit

\* --------------------------------------------------------------- C11

\* C11: every step in which the completion call raises is a "Generuj" step
\* that made that one completion call, showed the error of the call, called
\* neither calculate_cost nor save_history, ended without a generation, and
\* left every collection and every record as it was.
C11_Thm ==
    [][calls'.raised =>
          /\ calls'.completion = 1
          /\ calls'.error = "completion"
          /\ calls'.estimate = 0
          /\ calls'.save = 0
          /\ last' = Did("generate", FALSE)
          /\ collections' = collections
          /\ appended' = appended
    ]_vars

\* C11: a completion call has raised in a session whose account already
\* has a generation record stored.
C11_Witness ==
    /\ calls.raised
    /\ calls.account \in DOMAIN collections
    /\ \E p \in collections[calls.account] : IsGeneration(p)

\* --------------------------------------------------------------- C12

\* C12 (as claimed): every "Generuj" step with a non-empty problem makes
\* exactly one completion call, and every completion call that returns a
\* text, whatever the text is, is followed in the same step by exactly one
\* calculate_cost call and exactly one save_history call that adds one
\* generation record to the collection of the session's account.
C12_Claim ==
    [][/\ last'.op = "generate" => calls'.completion = 1
       /\ (calls'.completion = 1 /\ ~calls'.raised) =>
             /\ calls'.estimate = 1
             /\ calls'.save = 1
             /\ \E p \in collections'[calls'.account] :
                   /\ IsGeneration(p)
                   /\ p \notin collections[calls'.account]
                   /\ collections' =
                         [collections EXCEPT ![calls'.account] = @ \cup {p}]
    ]_vars

\* C12: a completion call has returned a text, and the step has made no
\* calculate_cost call and no save_history call.
C12_Witness ==
    /\ last = Did("generate", FALSE)
    /\ calls.completion = 1
    /\ ~calls.raised
    /\ calls.estimate = 0
    /\ calls.save = 0

\* --------------------------------------------------------------- C13

TokensOf(text) ==
    LET quarters == CHOOSE q \in 0..Len(text) : 4 * q <= Len(text) /\ Len(text) < 4 * (q + 1)
    IN  IF quarters >= 1 THEN quarters ELSE 1

\* C14: approximate_token_count of every text, the empty one too, is
\* max(1, floor(len/4)) and so at least 1; every calculate_cost call returns
\* as cost_usd 2.5e-6 a prompt token plus 10.0e-6 an output token (25 and
\* 100 units of 1e-7 USD) and as cost_pln cost_usd times the rate, which is
\* 4 when none is given; and calculate_cost("abcd", "abcdefgh") returns
\* 2.25e-5 USD and 9.0e-5 PLN (225 and 900 units).
C14_Thm ==
    /\ \A text \in Texts :
          /\ approximate_token_count(text) = TokensOf(text)
          /\ approximate_token_count(text) >= 1
    /\ approximate_token_count("") = 1
    /\ last.op = "calculate_cost" =>
          LET call == last.result
              rate == IF call.exchange_rate = Nothing THEN 4
                      ELSE call.exchange_rate[1]
              usd  == 25 * TokensOf(call.prompt_text)
                         + 100 * TokensOf(call.generated_text)
          IN  /\ call.cost = <<usd, usd * rate>>
              /\ (/\ call.prompt_text = "abcd"
                  /\ call.generated_text = "abcdefgh"
                  /\ call.exchange_rate = Nothing) => call.cost = <<225, 900>>

\* C14: calculate_cost("abcd", "abcdefgh") has been called without a rate.
C14_Witness ==
    /\ last.op = "calculate_cost"
    /\ last.result.prompt_text = "abcd"
    /\ last.result.generated_text = "abcdefgh"
    /\ last.result.exchange_rate = Nothing

\* --------------------------------------------------------------- C15

\* The points of the pages, in the order the requests returned them.
RECURSIVE PagesOf(_)
PagesOf(requests) ==
    IF requests = << >> THEN << >>
    ELSE Head(requests).points \o PagesOf(Tail(requests))

\* C15: a find_user call asks for pages of the page size (50 in the code,
\* ScrollLimit here), the first without a cursor and each later one with
\* the cursor the request before it returned, and stops at the first
\* answer without a cursor, after at most one request a stored point and
\* one more; the pages are the list the call scans and hold every point of
\* the collection once; and the
\* call returns the first record of the pages whose username is the
\* argument, on whichever page it lies, and None when no record has it.
C15_Thm ==
    last.op = "find_user" =>
       LET call     == last.result
           requests == call.requests
           n        == Len(requests)
           pages    == PagesOf(requests)
           users    == collections["users"]
           hits     == {i \in 1..Len(pages) :
                          PayloadIs(pages[i].payload, "username", call.username)}
       IN  /\ n >= 1 /\ n <= Cardinality(users) + 1
           /\ requests[1].offset = Nothing
           /\ \A i \in 1..n :
                 /\ requests[i].limit = ScrollLimit
                 /\ Len(requests[i].points) <= ScrollLimit
                 /\ i < n => /\ requests[i].next_offset # Nothing
                             /\ requests[i + 1].offset = requests[i].next_offset
           /\ requests[n].next_offset = Nothing
           /\ pages = ScrollAll(collections, "users")
           /\ Len(pages) = Cardinality(users)
           /\ {pages[i] : i \in 1..Len(pages)} = users
           /\ hits = {} => call.record = Nothing /\ call.payload = Nothing
           /\ hits # {} =>
                 LET first == CHOOSE i \in hits : \A j \in hits : i <= j
                 IN  /\ call.record = <<pages[first]>>
                     /\ call.payload = <<pages[first].payload>>
           /\ (call.record # Nothing) = (UserPoints(collections, call.username) # {})

\* C15: find_user has found a record that lies on the third page or later,
\* behind a record of another username and a generation record.
C15_Witness ==
    /\ last.op = "find_user"
    /\ last.result.record # Nothing
    /\ Len(last.result.requests) >= 3
    /\ \A i \in 1..2 :
          \A p \in {last.result.requests[i].points[k] :
                      k \in 1..Len(last.result.requests[i].points)} :
             ~PayloadIs(p.payload, "username", last.result.username)
    /\ \E p \in collections["users"] : IsGeneration(p)

\* --------------------------------------------------------------- C16

\* C16: in every step, a session's logged_in or username changes only by a
\* login of that session that succeeds, which sets logged_in and the
\* username it logged in with (so that logged_in is true only after such a
\* login, and then the username has a user record and a collection); a
\* failed login, a registration and a password reset leave every session
\* as it was; every completion call and every save_history call runs under
\* the username of a session that is logged in; and save_history writes
\* its one record to the collection of that name, which exists before the
\* write.
C16_Thm ==
    [][/\ \A s \in Sessions :
             session_state'[s] # session_state[s] =>
                /\ last' = Did("login", TRUE)
                /\ session_state'[s].logged_in
                /\ \E pw \in Passwords :
                      /\ login_user(collections, session_state'[s].username, pw)
                      /\ LoginCall(s, session_state'[s].username, pw)
       /\ \A s \in Sessions :
             IF session_state'[s].logged_in
             THEN /\ UserPoints(collections', session_state'[s].username) # {}
                  /\ session_state'[s].username \in DOMAIN collections'
             ELSE session_state'[s].username = ""
       /\ (\/ last'.op \in {"register", "reset", "reset_mismatch"}
           \/ last' = Did("login", FALSE)) => session_state' = session_state
       /\ (calls'.completion = 1 \/ calls'.save = 1) =>
             \E s \in Sessions :
                /\ session_state[s].logged_in
                /\ session_state[s].username = calls'.account
       /\ calls'.save = 1 =>
             /\ calls'.account \in DOMAIN collections
             /\ \E p \in collections'[calls'.account] :
                   /\ IsGeneration(p)
                   /\ p \notin collections[calls'.account]
                   /\ collections' =
                         [collections EXCEPT ![calls'.account] = @ \cup {p}]
    ]_vars

\* C16: a generation has been saved while one session is logged in and the
\* other is not.
C16_Witness ==
    /\ last = Did("generate", TRUE)
    /\ calls.save = 1
    /\ \E s, t \in Sessions :
          /\ session_state[s].logged_in
          /\ ~session_state[t].logged_in

====
